---- MODULE Spec2Model ----
(***************************************************************************)
(* A model of redisipc/ipc.py: IPC instances that share one Redis pub/sub  *)
(* channel, the pending-call table of get, the handler registry and the    *)
(* dispatch loop listen_ipc with the handler tasks it spawns.              *)
(*                                                                         *)
(* Python values are modelled by strings.  None is the string "None"; a    *)
(* key that a dict does not hold and a key that holds None are the same     *)
(* thing to the code, which reads envelopes only through dict.get, so an   *)
(* envelope is a record with all five fields and None for an absent one.   *)
(***************************************************************************)
EXTENDS Naturals, Sequences, FiniteSets, TLC

(* ------------------------------ bounds -------------------------------- *)

\* get calls made in one behaviour
MaxCalls == 2
\* events of one behaviour besides starting, calling get and dispatching: a
\* registry mutation (add_handler, remove_handler, add_router), a close, a
\* cancellation, a failed subscribe or publish, a foreign publisher's message
MaxEvents == 1

(* ------------------------------ domains ------------------------------- *)

None == "None"

\* the instances; an instance's identity (self.identity) is its name
Inst == {"a", "b"}

\* identity of a publisher on the channel that is not one of the instances
Stranger == "x"

\* operation names used by requests
Ops == {"ping", "echo"}

\* JSON values: the keyword payloads of get and the results of handlers
EmptyObj == "{}"

\* the instances whose application calls get, and the arguments it passes:
\* get("ping"), get("ping", required_identity="b", k=1) and
\* get("echo", required_identity="a", k=1)
Callers == {"a"}
CallArgs ==
    { [op |-> "ping", data |-> EmptyObj, rid |-> None],
      [op |-> "ping", data |-> "{k:1}",  rid |-> "b"],
      [op |-> "echo", data |-> "{k:1}",  rid |-> "a"] }

\* the names under which the application registers handlers at run time
RegNames == {"ping"}

\* bool(v) as Python evaluates it in `if message:`, `if resp and nonce:`,
\* `if nonce:` and `if required_identity`
Truthy(v) == v \notin {None, "false", "0", EmptyObj, "[]", ""}

\* a JSON value that is neither null nor an empty container or string
NonEmpty(v) == v \notin {None, EmptyObj, "[]", ""}

\* the handler functions an application registers: the parameters the
\* coroutine function declares and what its body does
\*   sig "opt":  async def h(data=None)      sig "one": async def h(data)
\*   sig "none": async def h()
HandlerFns ==
    [ pong  |-> [sig |-> "opt",  body |-> "{pong:true}"],
      echo  |-> [sig |-> "one",  body |-> "arg"],
      ready |-> [sig |-> "none", body |-> "false"],
      boom  |-> [sig |-> "opt",  body |-> "raise"] ]

HandlerNames == DOMAIN HandlerFns

\* a router: an object whose handle_* methods are merged by add_router
Routers ==
    [ r1 |-> [ping |-> "echo", echo |-> "pong"] ]

\* the tokens random_hex() returns, in the order it returns them
Hex == <<"n1", "n2", "n3", "n4", "n5", "n6">>

(* ------------------------------ state --------------------------------- *)

VARIABLES
    channel,      \* self.channel of each instance: None or its PubSub object
    subscribed,   \* whether Redis holds a subscription of that PubSub
    loop,         \* where the task running start() / listen_ipc() is
    inbox,        \* messages Redis has delivered to the PubSub, not yet read
    handlers,     \* self.handlers: operation name -> handler function
    nonces,       \* self.nonces: token -> the future (the get call that owns it)
    calls,        \* the get calls: arguments, position, future, outcome
    tasks,        \* the tasks created by asyncio.create_task(_run_handler)
    routers,      \* self.routers: the routers given to add_router, in order
    hooked,       \* the routers whose router_load has been called, in order
    extra,        \* listen_ipc coroutines iterating the PubSub beyond the first
    nEvent        \* events counted against MaxEvents so far

vars == <<channel, subscribed, loop, inbox, handlers, nonces, calls, tasks,
          routers, hooked, extra, nEvent>>

\* error_handler given to the constructor: a has one, b has none
error_handler == [i \in Inst |-> i = "a"]

CallIds == 1..MaxCalls

\* every get and every publish puts one request on the channel, and an
\* instance spawns at most one task for a request
MaxTasks == MaxCalls + MaxEvents

NoFuture == [st |-> "none", val |-> None]
NoOutcome == [kind |-> "none", val |-> None]

IdleCall ==
    [pc |-> "idle", inst |-> None, op |-> None, data |-> None, rid |-> None,
     nonce |-> None, fut |-> NoFuture, why |-> None, out |-> NoOutcome]

(* --------------------------- pure functions --------------------------- *)

\* mutant: a generator that repeats its token
random_hex_fixed(k) == Hex[1]

\* os.urandom(16).hex(): the k-th token drawn is new
random_hex(k) == Hex[k]

\* dict.get(key) on a decoded envelope
Get(m, key) == m[key]

\* mutant: publish leaves required_identity out of the envelope
PublishMessageToAll(op, data, sender, nonce, rid) ==
    [op |-> op, data |-> data, sender |-> sender,
     nonce |-> IF Truthy(nonce) THEN nonce ELSE None,
     required_identity |-> None]

\* the envelope publish() builds: nonce and required_identity only when truthy
PublishMessage(op, data, sender, nonce, rid) ==
    [op |-> op, data |-> data, sender |-> sender,
     nonce |-> IF Truthy(nonce) THEN nonce ELSE None,
     required_identity |-> IF Truthy(rid) THEN rid ELSE None]

\* mutant: a reply that does not carry the request's nonce
ReplyMessageNoNonce(nonce, sender, resp) ==
    [op |-> None, data |-> resp, sender |-> sender, nonce |-> None,
     required_identity |-> None]

\* the envelope _run_handler builds for a reply
ReplyMessage(nonce, sender, resp) ==
    [op |-> None, data |-> resp, sender |-> sender, nonce |-> nonce,
     required_identity |-> None]

\* json.dumps of an envelope: the text of a JSON object
JsonDumps(env) == [json |-> "object", obj |-> env]

\* what Redis hands to the listener for a published payload
DataMessage(payload) == [type |-> "message", data |-> payload]
ControlMessage(t) == [type |-> t, data |-> None]

\* json.loads(msg.get('data')) followed by the first message.get: the
\* exception raised, or the envelope
Decode(payload) ==
    CASE payload.json = "garbage" -> [exc |-> "JSONDecodeError", env |-> None]
      [] payload.json = "array"   -> [exc |-> "AttributeError", env |-> None]
      [] OTHER                    -> [exc |-> None, env |-> payload.obj]

\* redis.publish: every PubSub subscribed to the channel receives the message
FanOut(inb, raw) ==
    [j \in Inst |-> IF subscribed[j] THEN Append(inb[j], raw) ELSE inb[j]]

\* mutant: get without its guard
NotStartedUnchecked(i) == FALSE

\* the guard of get
NotStarted(i) == channel[i] = None

\* mutant: the reply branch taken for any envelope whose nonce is in the table
IsReplyByNonce(i, m) ==
    /\ Get(m, "nonce") # None
    /\ Get(m, "nonce") \in DOMAIN nonces[i]

\* mutant: the reply branch without its test of the sender
IsReplyAnySender(i, m) ==
    /\ Get(m, "op") = None
    /\ Get(m, "nonce") # None
    /\ Get(m, "nonce") \in DOMAIN nonces[i]

\* the condition of the reply branch of listen_ipc
IsReply(i, m) ==
    /\ Get(m, "op") = None
    /\ Get(m, "sender") # i
    /\ Get(m, "nonce") # None
    /\ Get(m, "nonce") \in DOMAIN nonces[i]

\* mutant: the result is stored without asking future.done()
SetResultAlways(fut, data) == [st |-> "result", val |-> data]

\* `if future and future.done() is False: future.set_result(data)`
SetResult(fut, data) ==
    IF fut.st = "pending" THEN [st |-> "result", val |-> data] ELSE fut

\* self.handlers.get(op)
Lookup(i, op) == IF op \in DOMAIN handlers[i] THEN handlers[i][op] ELSE None

\* mutant: required_identity is not looked at
AddressedAlways(i, m) == TRUE

\* `if required_identity and self.identity != required_identity: continue`
Addressed(i, m) ==
    ~ (Truthy(Get(m, "required_identity")) /\ i # Get(m, "required_identity"))

\* mutant: dict.setdefault, the first registration stays
RegisterKeep(reg, name, func) ==
    [x \in DOMAIN reg \cup {name} |-> IF x \in DOMAIN reg THEN reg[x] ELSE func]

\* self.handlers[name] = func
Register(reg, name, func) ==
    [x \in DOMAIN reg \cup {name} |-> IF x = name THEN func ELSE reg[x]]

\* del self.handlers[name]
Unregister(reg, name) == [x \in DOMAIN reg \ {name} |-> reg[x]]

\* the loop of add_router over the router's handle_* methods
Merge(reg, router) ==
    [x \in DOMAIN reg \cup DOMAIN router |->
        IF x \in DOMAIN router THEN router[x] ELSE reg[x]]

\* mutant: no finally block
FinallyLeak(tbl, nonce) == tbl

\* `finally: del self.nonces[nonce]`
Finally(tbl, nonce) == [x \in DOMAIN tbl \ {nonce} |-> tbl[x]]

\* `if message: await handler(message) else: await handler()`: the value the
\* handler returns or the exception the call raises
CallHandler(h, message) ==
    LET f == HandlerFns[h]
        withArg == Truthy(message)
    IN  IF (withArg /\ f.sig = "none") \/ (~withArg /\ f.sig = "one")
        THEN [kind |-> "raise", val |-> "TypeError"]
        ELSE CASE f.body = "raise" -> [kind |-> "raise", val |-> "HandlerError"]
               [] f.body = "arg"   -> [kind |-> "return", val |-> message]
               [] OTHER            -> [kind |-> "return", val |-> f.body]

\* mutant: `if resp:`, the nonce is not asked for
RepliesToAll(resp, nonce) == Truthy(resp)

\* `if resp and nonce:` in _run_handler
Replies(resp, nonce) == Truthy(resp) /\ Truthy(nonce)

\* mutant: the timeout is swallowed and get returns None
GetOutcomeSwallow(why, fut) ==
    CASE why = "reply"    -> [kind |-> "return", val |-> fut.val]
      [] why = "timer"    -> [kind |-> "return", val |-> None]
      [] why = "cancel"   -> [kind |-> "raise", val |-> "CancelledError"]
      [] why = "sendfail" -> [kind |-> "raise", val |-> "ConnectionError"]
      [] OTHER            -> [kind |-> "raise", val |-> "RuntimeError"]

\* how get ends: `return await asyncio.wait_for(future, timeout)` and the
\* exceptions that leave the try block
GetOutcome(why, fut) ==
    CASE why = "reply"    -> [kind |-> "return", val |-> fut.val]
      [] why = "timer"    -> [kind |-> "raise", val |-> "TimeoutError"]
      [] why = "cancel"   -> [kind |-> "raise", val |-> "CancelledError"]
      [] why = "sendfail" -> [kind |-> "raise", val |-> "ConnectionError"]
      [] OTHER            -> [kind |-> "raise", val |-> "RuntimeError"]

\* mutant: the handler is awaited inside listen_ipc, so its exception ends
\* the loop
FaultScopeInline(loopState) == "crashed"

\* an exception raised inside _run_handler ends the task created by
\* asyncio.create_task; the task running listen_ipc is another task
FaultScope(loopState) == loopState

(* ------------------------------ Init ---------------------------------- *)

Init ==
    /\ channel = [i \in Inst |-> None]
    /\ subscribed = [i \in Inst |-> FALSE]
    /\ loop = [i \in Inst |-> "idle"]
    /\ inbox = [i \in Inst |-> <<>>]
    /\ handlers = [i \in Inst |-> IF i = "b" THEN [ping |-> "pong", echo |-> "echo"]
                                  ELSE [ping |-> "boom"]]
    /\ nonces = [i \in Inst |-> <<>>]
    /\ calls = [c \in CallIds |-> IdleCall]
    /\ tasks = [i \in Inst |-> <<>>]
    /\ routers = [i \in Inst |-> <<>>]
    /\ hooked = [i \in Inst |-> <<>>]
    /\ extra = [i \in Inst |-> 0]
    /\ nEvent = 0

(* ----------------------- lifecycle of the loop ------------------------- *)

\* start() -> listen_ipc() -> ensure_channel(), up to `await pubsub.subscribe`:
\* self.channel is assigned before the subscription is requested
Start(i) ==
    /\ loop[i] = "idle"
    /\ channel' = [channel EXCEPT ![i] = IF @ = None THEN "pubsub" ELSE @]
    /\ loop' = [loop EXCEPT ![i] = "subscribing"]
    /\ UNCHANGED <<subscribed, inbox, handlers, nonces, calls, tasks, nEvent>>
    /\ UNCHANGED <<routers, hooked, extra>>

\* the subscribe completes: Redis acknowledges with a control message, which
\* listen() yields like any other message
SubscribeOk(i) ==
    /\ loop[i] = "subscribing"
    /\ subscribed' = [subscribed EXCEPT ![i] = TRUE]
    /\ inbox' = [inbox EXCEPT ![i] = Append(@, ControlMessage("subscribe"))]
    /\ loop' = [loop EXCEPT ![i] = "listening"]
    /\ UNCHANGED <<channel, handlers, nonces, calls, tasks, nEvent>>
    /\ UNCHANGED <<routers, hooked, extra>>

\* the subscribe raises: the exception leaves listen_ipc and start();
\* self.channel keeps the PubSub object
SubscribeFail(i) ==
    /\ nEvent < MaxEvents
    /\ loop[i] = "subscribing"
    /\ loop' = [loop EXCEPT ![i] = "failed"]
    /\ nEvent' = nEvent + 1
    /\ UNCHANGED <<channel, subscribed, inbox, handlers, nonces, calls, tasks>>
    /\ UNCHANGED <<routers, hooked, extra>>

\* mutant: the subscription is left in place
UnsubscribeSkipped(sub, i) == sub

\* self.channel.unsubscribe(self.channel_address)
Unsubscribe(sub, i) == [sub EXCEPT ![i] = FALSE]

\* start() called again on an instance that is listening: ensure_channel finds
\* self.channel set and does nothing, and listen_ipc goes on to iterate
\* self.channel.listen() beside the coroutine that already does
StartAgain(i) ==
    /\ nEvent < MaxEvents
    /\ loop[i] = "listening"
    /\ extra' = [extra EXCEPT ![i] = @ + 1]
    /\ nEvent' = nEvent + 1
    /\ UNCHANGED <<channel, subscribed, loop, inbox, handlers, nonces, calls, tasks>>
    /\ UNCHANGED <<routers, hooked>>

\* a task running start() is cancelled: `except asyncio.CancelledError`
\* unsubscribes and listen_ipc returns; a coroutine left iterating the PubSub
\* is sent the confirmation of the unsubscribe
LoopCancel(i) ==
    /\ nEvent < MaxEvents
    /\ loop[i] \in {"subscribing", "listening"}
    /\ subscribed' = Unsubscribe(subscribed, i)
    /\ IF extra[i] > 0
       THEN /\ extra' = [extra EXCEPT ![i] = @ - 1]
            /\ inbox' = [inbox EXCEPT ![i] = Append(@, ControlMessage("unsubscribe"))]
            /\ loop' = loop
       ELSE /\ loop' = [loop EXCEPT ![i] = "closed"]
            /\ UNCHANGED <<extra, inbox>>
    /\ nEvent' = nEvent + 1
    /\ UNCHANGED <<channel, handlers, nonces, calls, tasks>>
    /\ UNCHANGED <<routers, hooked>>

\* close(): unsubscribes; Redis confirms with a control message, after which
\* PubSub.listen() ends
Close(i) ==
    /\ nEvent < MaxEvents
    /\ channel[i] # None
    /\ subscribed[i]
    /\ subscribed' = Unsubscribe(subscribed, i)
    /\ inbox' = [inbox EXCEPT ![i] = Append(@, ControlMessage("unsubscribe"))]
    /\ nEvent' = nEvent + 1
    /\ UNCHANGED <<channel, loop, handlers, nonces, calls, tasks>>
    /\ UNCHANGED <<routers, hooked, extra>>

(* --------------------------- the dispatch loop ------------------------- *)

\* whether a handler task of instance i has ended with an exception
Faulted(i) ==
    \E k \in DOMAIN tasks[i] : tasks[i][k].st \in {"failed", "handled"}

\* a new task for _run_handler(handler, message=data, nonce=nonce); afterFault
\* records whether an earlier task of the instance had already raised
NewTask(i, h, m) ==
    [h |-> h, nonce |-> Get(m, "nonce"), message |-> Get(m, "data"),
     st |-> "running", resp |-> None, exc |-> None, sent |-> FALSE,
     afterFault |-> Faulted(i)]

\* mutant: `await self._run_handler(...)` in the place of create_task
AwaitsHandlerInline(i) ==
    \E k \in DOMAIN tasks[i] : tasks[i][k].st = "running"

\* whether the loop is held up by a handler it dispatched: it hands the
\* coroutine to asyncio.create_task and awaits only the next message
AwaitsHandler(i) == FALSE

\* one iteration of `async for msg in self.channel.listen()`, by whichever
\* coroutine of the instance is handed the message; an exception ends that
\* coroutine
Receive(i) ==
    /\ loop[i] = "listening"
    /\ ~AwaitsHandler(i)
    /\ inbox[i] # <<>>
    /\ LET msg == Head(inbox[i])
           dec == Decode(msg.data)
           m   == dec.env
       IN  /\ inbox' = [inbox EXCEPT ![i] = Tail(@)]
           /\ IF msg.type # "message"
              THEN /\ loop' = [loop EXCEPT ![i] =
                                 IF msg.type = "unsubscribe" THEN "closed" ELSE @]
                   /\ UNCHANGED <<calls, tasks, extra>>
              ELSE IF dec.exc # None
              THEN /\ IF extra[i] > 0
                      THEN extra' = [extra EXCEPT ![i] = @ - 1] /\ loop' = loop
                      ELSE loop' = [loop EXCEPT ![i] = "crashed"] /\ extra' = extra
                   /\ UNCHANGED <<calls, tasks>>
              ELSE IF IsReply(i, m)
              THEN /\ calls' = [calls EXCEPT ![nonces[i][Get(m, "nonce")]].fut =
                                   SetResult(@, Get(m, "data"))]
                   /\ UNCHANGED <<loop, tasks, extra>>
              ELSE IF Lookup(i, Get(m, "op")) # None /\ Addressed(i, m)
              THEN /\ tasks' = [tasks EXCEPT ![i] =
                                   Append(@, NewTask(i, Lookup(i, Get(m, "op")), m))]
                   /\ UNCHANGED <<loop, calls, extra>>
              ELSE UNCHANGED <<loop, calls, tasks, extra>>
    /\ UNCHANGED <<channel, subscribed, handlers, nonces, nEvent>>
    /\ UNCHANGED <<routers, hooked>>

(* ---------------------------- handler tasks --------------------------- *)

\* mutant: `except Exception: pass`, the task ends as if nothing was raised
FaultSwallowed(i, t, e) == [t EXCEPT !.st = "done"]

\* the failure of a task: to error_handler if there is one, else out of the task
Fault(i, t, e) ==
    [t EXCEPT !.st = IF error_handler[i] THEN "handled" ELSE "failed", !.exc = e]

\* _run_handler from the call of the handler to the end of the task; sendOk
\* is whether the redis.publish of the reply succeeds
TaskFinish(i, k, sendOk) ==
    /\ k \in DOMAIN tasks[i]
    /\ tasks[i][k].st = "running"
    /\ LET t == tasks[i][k]
           r == CallHandler(t.h, t.message)
           reply == r.kind = "return" /\ Replies(r.val, t.nonce)
       IN  /\ sendOk \/ (reply /\ nEvent < MaxEvents)
           /\ nEvent' = IF sendOk THEN nEvent ELSE nEvent + 1
           /\ IF r.kind = "raise"
              THEN /\ tasks' = [tasks EXCEPT ![i][k] = Fault(i, t, r.val)]
                   /\ inbox' = inbox
              ELSE IF reply /\ ~sendOk
              THEN /\ tasks' = [tasks EXCEPT ![i][k] =
                                  Fault(i, [t EXCEPT !.resp = r.val], "ConnectionError")]
                   /\ inbox' = inbox
              ELSE /\ tasks' = [tasks EXCEPT ![i][k] =
                                  [t EXCEPT !.st = "done", !.resp = r.val, !.sent = reply]]
                   /\ inbox' = IF reply
                               THEN FanOut(inbox, DataMessage(JsonDumps(
                                        ReplyMessage(t.nonce, i, r.val))))
                               ELSE inbox
    /\ loop' = IF tasks'[i][k].st = "failed"
               THEN [loop EXCEPT ![i] = FaultScope(@)]
               ELSE loop
    /\ UNCHANGED <<channel, subscribed, handlers, nonces, calls>>
    /\ UNCHANGED <<routers, hooked, extra>>

\* the task is cancelled while it awaits: `except asyncio.CancelledError: pass`
TaskCancel(i, k) ==
    /\ k \in DOMAIN tasks[i]
    /\ tasks[i][k].st = "running"
    /\ nEvent < MaxEvents
    /\ tasks' = [tasks EXCEPT ![i][k].st = "cancelled"]
    /\ nEvent' = nEvent + 1
    /\ UNCHANGED <<channel, subscribed, loop, inbox, handlers, nonces, calls>>
    /\ UNCHANGED <<routers, hooked, extra>>

(* -------------------------------- get ---------------------------------- *)

\* self.nonces[nonce] = future
Store(tbl, nonce, c) ==
    [x \in DOMAIN tbl \cup {nonce} |-> IF x = nonce THEN c ELSE tbl[x]]

\* the request envelope of a get call, as publish() puts it on the channel
Request(c) ==
    DataMessage(JsonDumps(PublishMessage(calls[c].op, calls[c].data,
        calls[c].inst, calls[c].nonce, calls[c].rid)))

\* get leaves through its finally block: the future is cancelled if wait_for
\* gave up on it, the token is deleted, and the call returns or raises
Exit(c, why) ==
    LET fut == IF calls[c].fut.st = "pending"
               THEN [st |-> "cancelled", val |-> None]
               ELSE calls[c].fut
    IN  /\ calls' = [calls EXCEPT ![c] =
                       [@ EXCEPT !.pc = "done", !.why = why, !.fut = fut,
                                 !.out = GetOutcome(why, calls[c].fut)]]
        /\ nonces' = [nonces EXCEPT ![calls[c].inst] = Finally(@, calls[c].nonce)]

\* get(op, required_identity=rid, **data) up to `await self.publish(...)`;
\* calls are numbered in the order they are made
GetBegin(c, i, args) ==
    /\ calls[c].pc = "idle"
    /\ \A d \in CallIds : d < c => calls[d].pc # "idle"
    /\ IF NotStarted(i)
       THEN /\ calls' = [calls EXCEPT ![c] =
                           [@ EXCEPT !.pc = "done", !.inst = i, !.op = args.op,
                                     !.data = args.data, !.rid = args.rid,
                                     !.why = "notstarted",
                                     !.out = GetOutcome("notstarted", NoFuture)]]
            /\ nonces' = nonces
       ELSE /\ calls' = [calls EXCEPT ![c] =
                           [@ EXCEPT !.pc = "publishing", !.inst = i, !.op = args.op,
                                     !.data = args.data, !.rid = args.rid,
                                     !.nonce = random_hex(c),
                                     !.fut = [st |-> "pending", val |-> None]]]
            /\ nonces' = [nonces EXCEPT ![i] = Store(@, random_hex(c), c)]
    /\ UNCHANGED <<channel, subscribed, loop, inbox, handlers, tasks, nEvent>>
    /\ UNCHANGED <<routers, hooked, extra>>

\* redis.publish of the request returns; get goes on to wait_for(future)
GetPublishOk(c) ==
    /\ calls[c].pc = "publishing"
    /\ inbox' = FanOut(inbox, Request(c))
    /\ calls' = [calls EXCEPT ![c].pc = "waiting"]
    /\ UNCHANGED <<channel, subscribed, loop, handlers, nonces, tasks, nEvent>>
    /\ UNCHANGED <<routers, hooked, extra>>

\* redis.publish of the request raises
GetPublishFail(c) ==
    /\ nEvent < MaxEvents
    /\ calls[c].pc = "publishing"
    /\ Exit(c, "sendfail")
    /\ nEvent' = nEvent + 1
    /\ UNCHANGED <<channel, subscribed, loop, inbox, handlers, tasks>>
    /\ UNCHANGED <<routers, hooked, extra>>

\* the future has a result: wait_for returns it
GetReturn(c) ==
    /\ calls[c].pc = "waiting"
    /\ calls[c].fut.st = "result"
    /\ Exit(c, "reply")
    /\ UNCHANGED <<channel, subscribed, loop, inbox, handlers, tasks, nEvent>>
    /\ UNCHANGED <<routers, hooked, extra>>

\* the timeout elapses with the future still pending: wait_for cancels the
\* future and raises TimeoutError
GetTimeout(c) ==
    /\ calls[c].pc = "waiting"
    /\ calls[c].fut.st = "pending"
    /\ Exit(c, "timer")
    /\ UNCHANGED <<channel, subscribed, loop, inbox, handlers, tasks, nEvent>>
    /\ UNCHANGED <<routers, hooked, extra>>

\* the task that called get is cancelled while get awaits
GetCancel(c) ==
    /\ nEvent < MaxEvents
    /\ calls[c].pc \in {"publishing", "waiting"}
    /\ Exit(c, "cancel")
    /\ nEvent' = nEvent + 1
    /\ UNCHANGED <<channel, subscribed, loop, inbox, handlers, tasks>>
    /\ UNCHANGED <<routers, hooked, extra>>

(* ------------------------------ registry ------------------------------ *)

AddHandler(i, name, h) ==
    /\ nEvent < MaxEvents
    /\ handlers' = [handlers EXCEPT ![i] = Register(@, name, h)]
    /\ nEvent' = nEvent + 1
    /\ UNCHANGED <<channel, subscribed, loop, inbox, nonces, calls, tasks>>
    /\ UNCHANGED <<routers, hooked, extra>>

\* del raises KeyError for a name that is not registered: nothing changes
RemoveHandler(i, name) ==
    /\ nEvent < MaxEvents
    /\ name \in DOMAIN handlers[i]
    /\ handlers' = [handlers EXCEPT ![i] = Unregister(@, name)]
    /\ nEvent' = nEvent + 1
    /\ UNCHANGED <<channel, subscribed, loop, inbox, nonces, calls, tasks>>
    /\ UNCHANGED <<routers, hooked, extra>>

AddRouter(i, r) ==
    /\ nEvent < MaxEvents
    /\ routers' = [routers EXCEPT ![i] = Append(@, r)]
    /\ handlers' = [handlers EXCEPT ![i] = Merge(@, Routers[r])]
    /\ nEvent' = nEvent + 1
    /\ UNCHANGED <<channel, subscribed, loop, inbox, nonces, calls, tasks>>
    /\ UNCHANGED <<hooked, extra>>

(* ------------------------------ publish ------------------------------- *)

\* the arguments the application passes to publish: publish("ping")
PublishArgs == { [op |-> "ping", data |-> EmptyObj, rid |-> None] }

\* publish(op, required_identity=rid, **data) called by the application: a
\* request without a nonce; publish has no guard on self.channel
Publish(i, args) ==
    /\ nEvent < MaxEvents
    /\ \E j \in Inst : subscribed[j]
    /\ inbox' = FanOut(inbox, DataMessage(JsonDumps(
                    PublishMessage(args.op, args.data, i, None, args.rid))))
    /\ nEvent' = nEvent + 1
    /\ UNCHANGED <<channel, subscribed, loop, handlers, nonces, calls, tasks>>
    /\ UNCHANGED <<routers, hooked, extra>>

(* ------------------------ other publishers ---------------------------- *)

\* what a publisher that is not an IPC instance may put on the channel: bytes
\* that are not JSON, JSON that is not an object, and a reply envelope that
\* carries a token some get has drawn
ExtPayloads ==
    {[json |-> "garbage", obj |-> None], [json |-> "array", obj |-> None]}
    \cup {JsonDumps(ReplyMessage(calls[c].nonce, Stranger, "{forged}")) :
            c \in {d \in CallIds : calls[d].nonce # None}}

ExtPublish(payload) ==
    /\ nEvent < MaxEvents
    /\ \E i \in Inst : subscribed[i]
    /\ inbox' = FanOut(inbox, DataMessage(payload))
    /\ nEvent' = nEvent + 1
    /\ UNCHANGED <<channel, subscribed, loop, handlers, nonces, calls, tasks>>
    /\ UNCHANGED <<routers, hooked, extra>>

(* --------------------------- specification ---------------------------- *)

Next ==
    \/ \E i \in Inst : Start(i)
    \/ \E i \in Inst : SubscribeOk(i)
    \/ \E i \in Inst : SubscribeFail(i)
    \/ \E i \in Inst : LoopCancel(i)
    \/ \E i \in Inst : Close(i)
    \/ \E i \in Inst : Receive(i)
    \/ \E i \in Inst, k \in 1..MaxTasks, ok \in BOOLEAN : TaskFinish(i, k, ok)
    \/ \E i \in Inst, k \in 1..MaxTasks : TaskCancel(i, k)
    \/ \E c \in CallIds, i \in Callers, args \in CallArgs : GetBegin(c, i, args)
    \/ \E c \in CallIds : GetPublishOk(c)
    \/ \E c \in CallIds : GetPublishFail(c)
    \/ \E c \in CallIds : GetReturn(c)
    \/ \E c \in CallIds : GetTimeout(c)
    \/ \E c \in CallIds : GetCancel(c)
    \/ \E i \in Inst, name \in RegNames, h \in HandlerNames : AddHandler(i, name, h)
    \/ \E i \in Inst, name \in Ops : RemoveHandler(i, name)
    \/ \E i \in Inst, r \in DOMAIN Routers : AddRouter(i, r)
    \/ \E payload \in ExtPayloads : ExtPublish(payload)
    \/ \E i \in Inst : StartAgain(i)
    \/ \E i \in Callers, args \in PublishArgs : Publish(i, args)

Spec == Init /\ [][Next]_vars

(* ------------------ the instances alone on the channel ---------------- *)

\* the system in which every envelope on the channel comes from an instance
NextInstances ==
    \/ \E i \in Inst : Start(i)
    \/ \E i \in Inst : SubscribeOk(i)
    \/ \E i \in Inst : SubscribeFail(i)
    \/ \E i \in Inst : LoopCancel(i)
    \/ \E i \in Inst : Close(i)
    \/ \E i \in Inst : Receive(i)
    \/ \E i \in Inst, k \in 1..MaxTasks, ok \in BOOLEAN : TaskFinish(i, k, ok)
    \/ \E i \in Inst, k \in 1..MaxTasks : TaskCancel(i, k)
    \/ \E c \in CallIds, i \in Callers, args \in CallArgs : GetBegin(c, i, args)
    \/ \E c \in CallIds : GetPublishOk(c)
    \/ \E c \in CallIds : GetPublishFail(c)
    \/ \E c \in CallIds : GetReturn(c)
    \/ \E c \in CallIds : GetTimeout(c)
    \/ \E c \in CallIds : GetCancel(c)
    \/ \E i \in Inst, name \in RegNames, h \in HandlerNames : AddHandler(i, name, h)
    \/ \E i \in Inst, name \in Ops : RemoveHandler(i, name)
    \/ \E i \in Inst, r \in DOMAIN Routers : AddRouter(i, r)
    \/ \E i \in Inst : StartAgain(i)
    \/ \E i \in Callers, args \in PublishArgs : Publish(i, args)

SpecInstances == Init /\ [][NextInstances]_vars

(* ---------------- reliable transport, patient timeout ----------------- *)

\* nothing is in flight: every delivered message has been read and every
\* handler task has ended
Quiet ==
    /\ \A i \in Inst : loop[i] = "listening" => inbox[i] = <<>>
    /\ \A i \in Inst : loop[i] # "subscribing"
    /\ \A i \in Inst : \A k \in DOMAIN tasks[i] : tasks[i][k].st # "running"

\* a timeout long enough not to elapse while a reply can still arrive
GetTimeoutPatient(c) == Quiet /\ GetTimeout(c)

\* get called on an instance that is listening
GetBeginListening(c, i, args) == loop[i] = "listening" /\ GetBegin(c, i, args)

\* the system with listening callers, a transport that does not fail, no
\* cancellation, no close and no foreign publisher
NextReliable ==
    \/ \E i \in Inst : Start(i)
    \/ \E i \in Inst : SubscribeOk(i)
    \/ \E i \in Inst : Receive(i)
    \/ \E i \in Inst, k \in 1..MaxTasks : TaskFinish(i, k, TRUE)
    \/ \E c \in CallIds, i \in Callers, args \in CallArgs :
          GetBeginListening(c, i, args)
    \/ \E c \in CallIds : GetPublishOk(c)
    \/ \E c \in CallIds : GetReturn(c)
    \/ \E c \in CallIds : GetTimeoutPatient(c)
    \/ \E i \in Inst, name \in RegNames, h \in HandlerNames : AddHandler(i, name, h)
    \/ \E i \in Inst, name \in Ops : RemoveHandler(i, name)
    \/ \E i \in Inst, r \in DOMAIN Routers : AddRouter(i, r)

\* the event loop runs every task that is ready: the listener, the handler
\* tasks and the callers of get
Fairness ==
    /\ \A i \in Inst : WF_vars(Receive(i))
    /\ \A i \in Inst, k \in 1..MaxTasks : WF_vars(TaskFinish(i, k, TRUE))
    /\ \A c \in CallIds : WF_vars(GetPublishOk(c))
    /\ \A c \in CallIds : WF_vars(GetReturn(c))

SpecReliable == Init /\ [][NextReliable]_vars /\ Fairness

(* ------------------------------ claims -------------------------------- *)

\* the step reads the head of inbox[i]: one iteration of the loop of i
Reads(i) ==
    /\ loop[i] = "listening"
    /\ inbox[i] # <<>>
    /\ inbox'[i] = Tail(inbox[i])

\* the head of inbox[i] is a data message that decodes to an envelope
HeadIsEnvelope(i) ==
    /\ inbox[i] # <<>>
    /\ Head(inbox[i]).type = "message"
    /\ Decode(Head(inbox[i]).data).exc = None

HeadEnvelope(i) == Decode(Head(inbox[i]).data).env

\* no message is put on the channel in the step
NothingPublished ==
    \A j \in Inst : inbox'[j] = inbox[j] \/ inbox'[j] = Tail(inbox[j])

\* the handler results that are values
Results == {"{pong:true}", "{k:1}", "false", EmptyObj, None}

\* a handler task of a peer of the caller, run for the request of call c, has
\* returned r
PeerReturned(c, r) ==
    \E i \in Inst : \E k \in DOMAIN tasks[i] :
        /\ i # calls[c].inst
        /\ tasks[i][k].nonce = calls[c].nonce
        /\ tasks[i][k].st = "done"
        /\ tasks[i][k].resp = r

Returned(c, r) ==
    calls[c].pc = "done" /\ calls[c].out = [kind |-> "return", val |-> r]

LoopStep ==
    \/ \E i \in Inst : Receive(i)
    \/ \E i \in Inst, k \in 1..MaxTasks : TaskFinish(i, k, TRUE)
    \/ \E c \in CallIds : GetPublishOk(c)
    \/ \E c \in CallIds : GetReturn(c)

C2_GetBeforeStart ==
    [][ \A c \in CallIds :
          ( /\ calls[c].pc = "idle"
            /\ calls'[c].pc # "idle"
            /\ loop[calls'[c].inst] = "idle" )
          => /\ calls'[c].pc = "done"
             /\ calls'[c].out = [kind |-> "raise", val |-> "RuntimeError"]
             /\ calls'[c].nonce = None
             /\ inbox' = inbox
             /\ nonces' = nonces ]_vars

C2_Witness ==
    \E c \in CallIds :
        /\ calls[c].pc = "done"
        /\ calls[c].out.val = "RuntimeError"
        /\ loop[calls[c].inst] = "idle"

\* C3: a get whose timeout expires with no reply to its token having arrived
\* ends with TimeoutError: it returns no value, and a get returns a value
\* only when a reply resolved its future
C3_TimeoutRaises ==
    \A c \in CallIds :
        /\ (calls[c].pc = "done" /\ calls[c].why = "timer")
             => /\ calls[c].out = [kind |-> "raise", val |-> "TimeoutError"]
                /\ calls[c].fut.st = "cancelled"
        /\ calls[c].out.kind = "return" => calls[c].fut.st = "result"

C3_Witness ==
    \E c \in CallIds :
        /\ calls[c].pc = "done"
        /\ calls[c].nonce # None
        /\ calls[c].why = "timer"
        /\ calls[c].out.val = "TimeoutError"

\* the get calls of instance i that are in progress
InProgress(i) ==
    {c \in CallIds : calls[c].inst = i /\ calls[c].pc \in {"publishing", "waiting"}}

\* C4: the pending-call table of an instance holds exactly the tokens of its
\* get calls in progress, each mapped to the future of its call
C4_TableIsCallsInProgress ==
    \A i \in Inst :
        /\ DOMAIN nonces[i] = {calls[c].nonce : c \in InProgress(i)}
        /\ \A c \in InProgress(i) : nonces[i][calls[c].nonce] = c

C4_Witness ==
    /\ \E c \in CallIds : calls[c].pc = "done" /\ calls[c].why = "cancel"
    /\ \E c \in CallIds : calls[c].pc = "done" /\ calls[c].why = "reply"
    /\ \A i \in Inst : DOMAIN nonces[i] = {}

\* C5: get calls in progress hold distinct tokens; a future is resolved only by
\* the loop of its instance reading a reply envelope that carries the call's
\* token, with that envelope's data, and no other call's future changes in
\* that step; a get that returns, returns the value of its own future
C5_OwnReplyOnly ==
    [][ /\ \A c, d \in CallIds :
            (c # d /\ calls'[c].nonce # None) => calls'[c].nonce # calls'[d].nonce
        /\ \A c \in CallIds :
            (calls[c].fut.st = "pending" /\ calls'[c].fut.st = "result")
            => /\ Reads(calls[c].inst)
               /\ HeadIsEnvelope(calls[c].inst)
               /\ Get(HeadEnvelope(calls[c].inst), "nonce") = calls[c].nonce
               /\ Get(HeadEnvelope(calls[c].inst), "data") = calls'[c].fut.val
               /\ \A d \in CallIds \ {c} : calls'[d].fut = calls[d].fut
        /\ \A c \in CallIds :
            (calls[c].pc # "done" /\ calls'[c].out.kind = "return")
            => /\ calls[c].fut.st = "result"
               /\ calls'[c].out.val = calls[c].fut.val ]_vars

\* the reply to the first call is about to be read after the reply to the
\* second call has resolved its future
C5_Witness ==
    /\ MaxCalls >= 2
    /\ calls[1].pc = "waiting" /\ calls[1].fut.st = "pending"
    /\ calls[2].pc = "waiting" /\ calls[2].fut.st = "result"
    /\ tasks["b"] # <<>> /\ tasks["b"][1].nonce = calls[1].nonce
    /\ HeadIsEnvelope("a")
    /\ Get(HeadEnvelope("a"), "op") = None
    /\ Get(HeadEnvelope("a"), "nonce") = calls[1].nonce

\* C6: an instance that reads a request envelope whose required_identity is
\* not its own identity spawns no handler task, publishes nothing, resolves
\* nothing and keeps listening, whether or not it has a handler for the
\* operation
C6_OnlyAddressee ==
    [][ \A i \in Inst :
          ( /\ Reads(i)
            /\ HeadIsEnvelope(i)
            /\ Get(HeadEnvelope(i), "op") # None
            /\ Get(HeadEnvelope(i), "required_identity") # None
            /\ Get(HeadEnvelope(i), "required_identity") # i )
          => /\ tasks'[i] = tasks[i]
             /\ calls' = calls
             /\ loop'[i] = "listening"
             /\ NothingPublished ]_vars

\* a, which has a handler for ping, has read its own first request (it ran the
\* handler) and then its second request, addressed to b, for which only b has
\* run a handler
C6_Witness ==
    /\ MaxCalls >= 2
    /\ nEvent = 0
    /\ calls[1].op = "ping" /\ calls[1].rid = None
    /\ calls[2].op = "ping" /\ calls[2].rid = "b"
    /\ "ping" \in DOMAIN handlers["a"]
    /\ Len(tasks["a"]) = 1 /\ tasks["a"][1].nonce = calls[1].nonce
    /\ Len(tasks["b"]) = 2
    /\ tasks["b"][1].nonce = calls[1].nonce
    /\ tasks["b"][2].nonce = calls[2].nonce
    /\ inbox["a"] = <<>>
    /\ loop["a"] = "listening"

\* C7: add_handler and add_router put their handler under the name whatever it
\* held before and leave the other names alone, and remove_handler takes the
\* name out; an instance that reads a request runs the handler its registry
\* holds for the operation at that moment, and when it holds none the request
\* is dropped: no task, nothing published, the loop still listening
C7_LastWriterWins ==
    [][ /\ \A i \in Inst, name \in RegNames, h \in HandlerNames :
            AddHandler(i, name, h)
            => /\ name \in DOMAIN handlers'[i] /\ handlers'[i][name] = h
               /\ \A x \in DOMAIN handlers[i] \ {name} :
                    x \in DOMAIN handlers'[i] /\ handlers'[i][x] = handlers[i][x]
        /\ \A i \in Inst, r \in DOMAIN Routers :
            AddRouter(i, r)
            => \A x \in DOMAIN Routers[r] :
                    x \in DOMAIN handlers'[i] /\ handlers'[i][x] = Routers[r][x]
        /\ \A i \in Inst, name \in Ops :
            RemoveHandler(i, name) => name \notin DOMAIN handlers'[i]
        /\ \A i \in Inst :
            (Reads(i) /\ HeadIsEnvelope(i) /\ Get(HeadEnvelope(i), "op") # None)
            => LET m == HeadEnvelope(i)
               IN  IF /\ Get(m, "op") \in DOMAIN handlers[i]
                      /\ Get(m, "required_identity") \in {None, i}
                   THEN /\ Len(tasks'[i]) = Len(tasks[i]) + 1
                        /\ tasks'[i][Len(tasks'[i])].h = handlers[i][Get(m, "op")]
                        /\ SubSeq(tasks'[i], 1, Len(tasks[i])) = tasks[i]
                   ELSE /\ tasks'[i] = tasks[i]
                        /\ loop'[i] = "listening"
                        /\ NothingPublished ]_vars

\* b, constructed with pong for ping, now holds ready for ping and has run
\* ready for a ping request
C7_Witness ==
    /\ "ping" \in DOMAIN handlers["b"]
    /\ handlers["b"]["ping"] = "ready"
    /\ \E k \in DOMAIN tasks["b"] : \E c \in CallIds :
         /\ tasks["b"][k].h = "ready"
         /\ tasks["b"][k].nonce = calls[c].nonce
         /\ calls[c].op = "ping"

\* C8: the step in which a handler task ends with an exception, passed to the
\* error handler or not, leaves the instance's loop where it was and takes
\* no message from its inbox
C8_HandlerFaultConfined ==
    [][ \A i \in Inst : \A k \in DOMAIN tasks[i] :
          ( /\ tasks[i][k].st = "running"
            /\ tasks'[i][k].st \in {"failed", "handled"} )
          => /\ loop'[i] = loop[i]
             /\ inbox'[i] = inbox[i] ]_vars

\* b, which has no error handler, has had a handler task fail and has
\* dispatched a later request all the same
C8_Witness ==
    /\ Len(tasks["b"]) >= 2
    /\ tasks["b"][1].st = "failed"
    /\ tasks["b"][1].exc = "HandlerError"
    /\ tasks["b"][2].afterFault
    /\ tasks["b"][2].nonce # tasks["b"][1].nonce
    /\ loop["b"] = "listening"

\* C9 as claimed: the loop that reads a data message whose payload does not
\* decode to an envelope is still listening afterwards
C9_UndecodableDropped ==
    [][ \A i \in Inst :
          ( /\ Reads(i)
            /\ Head(inbox[i]).type = "message"
            /\ Decode(Head(inbox[i]).data).exc # None )
          => loop'[i] = "listening" ]_vars

\* C10: reading a reply envelope whose token has no slot in the table, or whose
\* slot is already resolved or cancelled, changes no call and no future,
\* spawns no task, adds nothing to the table, publishes nothing and leaves
\* the loop listening
C10_LaterRepliesIgnored ==
    [][ \A i \in Inst :
          ( /\ Reads(i)
            /\ HeadIsEnvelope(i)
            /\ Get(HeadEnvelope(i), "op") = None
            /\ Get(HeadEnvelope(i), "nonce") # None
            /\ \/ Get(HeadEnvelope(i), "nonce") \notin DOMAIN nonces[i]
               \/ calls[nonces[i][Get(HeadEnvelope(i), "nonce")]].fut.st # "pending" )
          => /\ calls' = calls
             /\ tasks' = tasks
             /\ nonces' = nonces
             /\ loop' = loop
             /\ NothingPublished ]_vars

\* a has read its own request (it ran its handler for it), then the foreign
\* reply, which resolved the slot, then the reply of b, and the slot, still
\* in the table, keeps the first value
C10_Witness ==
    \E c \in CallIds :
        /\ calls[c].pc = "waiting"
        /\ calls[c].fut = [st |-> "result", val |-> "{forged}"]
        /\ \E k \in DOMAIN tasks["a"] : tasks["a"][k].nonce = calls[c].nonce
        /\ \E k \in DOMAIN tasks["b"] :
             tasks["b"][k].nonce = calls[c].nonce /\ tasks["b"][k].sent
        /\ inbox["a"] = <<>>
        /\ loop["a"] = "listening"

\* the handler task of the calling instance itself, run for the request of
\* call c, has returned r and published the reply
OwnReturned(c, r) ==
    \E k \in DOMAIN tasks[calls[c].inst] :
        /\ tasks[calls[c].inst][k].nonce = calls[c].nonce
        /\ tasks[calls[c].inst][k].st = "done"
        /\ tasks[calls[c].inst][k].resp = r
        /\ tasks[calls[c].inst][k].sent

\* no other instance has run a handler for the request of call c
NoPeerTask(c) ==
    \A i \in Inst \ {calls[c].inst} : \A k \in DOMAIN tasks[i] :
        tasks[i][k].nonce # calls[c].nonce

\* C11 as claimed: under a reliable transport and a patient timeout, a get
\* whose request only the calling instance's own handler answered, with a
\* truthy result r, has returned r once it ended
C11_OwnHandlerResolves ==
    \A c \in CallIds : \A r \in Results :
        ( /\ calls[c].pc = "done"
          /\ Truthy(r)
          /\ OwnReturned(c, r)
          /\ NoPeerTask(c) )
        => Returned(c, r)

\* C11, amended: under a reliable transport and a patient timeout, a get whose
\* request no other instance handled ends with TimeoutError, whatever the
\* calling instance's own handler returned and published: the instance's loop
\* does not take a reply whose sender is its own identity
C11_OwnReplyNotTaken ==
    \A c \in CallIds :
        (calls[c].pc = "done" /\ NoPeerTask(c))
        => /\ calls[c].out = [kind |-> "raise", val |-> "TimeoutError"]
           /\ calls[c].fut.st = "cancelled"

\* a's own handler returned {pong:true} and published it, a has read every
\* message, and its get has timed out
C11_Witness ==
    \E c \in CallIds :
        /\ calls[c].pc = "done"
        /\ OwnReturned(c, "{pong:true}")
        /\ NoPeerTask(c)
        /\ inbox[calls[c].inst] = <<>>
        /\ calls[c].out.val = "TimeoutError"

\* C12 as claimed: every router given to add_router has had its router_load
\* called exactly once, after its handlers were merged: the routers loaded
\* are the routers attached, in the same order
C12_RouterLoaded ==
    \A i \in Inst :
        /\ hooked[i] = routers[i]
        /\ \A k \in DOMAIN routers[i] : \A x \in DOMAIN Routers[routers[i][k]] :
             x \in DOMAIN handlers[i]

\* C13 as claimed: whatever number of times start() was called, at most one
\* coroutine of an instance consumes the messages of its PubSub
C13_StartIdempotent ==
    \A i \in Inst : extra[i] = 0

\* the confirmation of an unsubscribe is among the messages instance i has
\* still to read
UnsubscribePending(q) ==
    \E k \in DOMAIN q : q[k].type = "unsubscribe"

\* C14: cancelling the loop task of a listening instance and calling close()
\* on it both remove the subscription, and the loop ends closed, not failed:
\* at once, or when it reads the confirmation of the unsubscribe, which is
\* then in its inbox; a closed loop stays closed, is delivered nothing,
\* spawns no handler task and resolves no pending slot (the tasks it spawned
\* before run on)
C14_CancelAndCloseEndTheLoop ==
    [][ \A i \in Inst :
          /\ (loop[i] = "listening" /\ LoopCancel(i))
             => /\ ~subscribed'[i]
                /\ loop'[i] = "closed" \/ UnsubscribePending(inbox'[i])
                /\ loop'[i] \in {"closed", "listening"}
          /\ (loop[i] = "listening" /\ Close(i))
             => /\ ~subscribed'[i]
                /\ UnsubscribePending(inbox'[i])
                /\ loop'[i] = "listening"
          /\ (loop'[i] = "listening" /\ ~subscribed'[i])
             => UnsubscribePending(inbox'[i])
          /\ (Reads(i) /\ Head(inbox[i]).type = "unsubscribe")
             => loop'[i] = "closed"
          /\ loop[i] = "closed"
             => /\ loop'[i] = "closed"
                /\ ~subscribed'[i]
                /\ inbox'[i] = inbox[i]
                /\ Len(tasks'[i]) = Len(tasks[i])
                /\ \A c \in CallIds :
                     (calls[c].inst = i /\ calls[c].fut.st = "pending")
                     => calls'[c].fut.st # "result" ]_vars

\* b dispatched a request, then its loop ended closed, and a request published
\* since (the second call is waiting) was not delivered to it
C14_Witness ==
    /\ MaxCalls >= 2
    /\ loop["b"] = "closed"
    /\ ~subscribed["b"]
    /\ Len(tasks["b"]) = 1
    /\ tasks["b"][1].nonce = calls[1].nonce
    /\ calls[2].pc = "waiting"
    /\ calls[2].rid = "b"
    /\ inbox["b"] = <<>>
    /\ inbox["a"] = <<>> /\ loop["a"] = "listening"

\* C15: a handler task that ends because its handler raised ends handled,
\* with that exception and the request's data given to the error handler,
\* when the instance has an error handler, and failed with that exception
\* when it has none; a cancelled task ends with no exception recorded; in
\* each case nothing is published and the loop is left as it was
C15_FaultRouting ==
    [][ \A i \in Inst : \A k \in DOMAIN tasks[i] :
          (tasks[i][k].st = "running" /\ tasks'[i][k].st # "running")
          => LET t == tasks[i][k]
                 u == tasks'[i][k]
                 r == CallHandler(t.h, t.message)
             IN  /\ (r.kind = "raise" /\ u.st # "cancelled")
                    => /\ u.st = IF error_handler[i] THEN "handled" ELSE "failed"
                       /\ u.exc = r.val
                       /\ u.message = t.message
                 /\ u.st \in {"handled", "failed", "cancelled"}
                    => /\ ~u.sent
                       /\ inbox' = inbox
                       /\ loop' = loop
                 /\ u.st = "handled" => error_handler[i]
                 /\ u.st = "failed" => ~error_handler[i]
                 /\ u.st = "cancelled" => u.exc = None ]_vars

\* one request made the handler of a, which has an error handler, and the
\* handler of b, which has none, raise
C15_Witness ==
    \E c \in CallIds :
        /\ \E k \in DOMAIN tasks["a"] :
             /\ tasks["a"][k].nonce = calls[c].nonce
             /\ tasks["a"][k].st = "handled"
             /\ tasks["a"][k].exc = "HandlerError"
             /\ tasks["a"][k].message = calls[c].data
        /\ \E k \in DOMAIN tasks["b"] :
             /\ tasks["b"][k].nonce = calls[c].nonce
             /\ tasks["b"][k].st = "failed"
             /\ tasks["b"][k].exc = "HandlerError"
        /\ loop["a"] = "listening" /\ loop["b"] = "listening"

C17_SlowHandlerDoesNotBlock ==
    \A i \in Inst :
        (loop[i] = "listening" /\ inbox[i] # <<>>) => ENABLED Receive(i)

\* the handler task a spawned for its first request is still running, and
\* meanwhile a has read the reply to that request, which resolved the slot,
\* and its second request, for which it spawned a second task
C17_Witness ==
    /\ MaxCalls >= 2
    /\ Len(tasks["a"]) = 2
    /\ tasks["a"][1].st = "running"
    /\ tasks["a"][1].nonce = calls[1].nonce
    /\ tasks["a"][2].nonce = calls[2].nonce
    /\ calls[1].pc = "waiting"
    /\ calls[1].fut = [st |-> "result", val |-> "{pong:true}"]

\* C18: the future of a call is resolved only in a step in which the loop of
\* the call's instance reads an envelope that has no op, a sender other than
\* the instance and the call's nonce, with that envelope's data, and no
\* handler task is spawned in that step; reading an envelope that has an op,
\* or whose sender is the reading instance, resolves nothing
C18_ReplyBranch ==
    [][ /\ \A c \in CallIds :
            (calls[c].fut.st = "pending" /\ calls'[c].fut.st = "result")
            => LET i == calls[c].inst
               IN  /\ Reads(i)
                   /\ HeadIsEnvelope(i)
                   /\ Get(HeadEnvelope(i), "op") = None
                   /\ Get(HeadEnvelope(i), "sender") # i
                   /\ Get(HeadEnvelope(i), "nonce") = calls[c].nonce
                   /\ calls[c].nonce \in DOMAIN nonces[i]
                   /\ nonces[i][calls[c].nonce] = c
                   /\ calls'[c].fut.val = Get(HeadEnvelope(i), "data")
                   /\ tasks' = tasks
        /\ \A i \in Inst :
            ( /\ Reads(i)
              /\ HeadIsEnvelope(i)
              /\ \/ Get(HeadEnvelope(i), "op") # None
                 \/ Get(HeadEnvelope(i), "sender") = i )
            => calls' = calls ]_vars

\* a has read the echo of its own request (its handler ran for it and was
\* passed to the error handler) and then the reply of b, which alone
\* resolved the slot
C18_Witness ==
    \E c \in CallIds :
        /\ calls[c].pc = "waiting"
        /\ calls[c].fut = [st |-> "result", val |-> "{pong:true}"]
        /\ \E k \in DOMAIN tasks["a"] :
             tasks["a"][k].nonce = calls[c].nonce /\ tasks["a"][k].st = "handled"
        /\ \E k \in DOMAIN tasks["b"] :
             tasks["b"][k].nonce = calls[c].nonce /\ tasks["b"][k].sent
        /\ inbox["a"] = <<>>
        /\ nEvent = 0

\* C19 as claimed: get called on an instance that holds no subscription to
\* the channel, whatever start() has done so far, raises RuntimeError and
\* adds no entry to the pending-call table
C19_GetNeedsSubscription ==
    [][ \A c \in CallIds :
          ( /\ calls[c].pc = "idle"
            /\ calls'[c].pc # "idle"
            /\ ~subscribed[calls'[c].inst] )
          => /\ calls'[c].pc = "done"
             /\ calls'[c].out = [kind |-> "raise", val |-> "RuntimeError"]
             /\ nonces' = nonces ]_vars

\* C20: with the instances alone on the channel, the future of a get called
\* with required_identity = X is resolved only by a reply whose sender is X,
\* carrying what a handler task of X returned for that request, and the get
\* returns normally only the value of its resolved future
C20_OnlyAddresseeResolves ==
    [][ \A c \in CallIds :
          /\ ( /\ calls[c].rid # None
               /\ calls[c].fut.st = "pending"
               /\ calls'[c].fut.st = "result" )
             => /\ HeadIsEnvelope(calls[c].inst)
                /\ Get(HeadEnvelope(calls[c].inst), "sender") = calls[c].rid
                /\ \E k \in DOMAIN tasks[calls[c].rid] :
                     /\ tasks[calls[c].rid][k].nonce = calls[c].nonce
                     /\ tasks[calls[c].rid][k].sent
                     /\ tasks[calls[c].rid][k].resp = calls'[c].fut.val
          /\ ( /\ calls[c].rid # None
               /\ calls[c].pc # "done"
               /\ calls'[c].out.kind = "return" )
             => /\ calls[c].fut.st = "result"
                /\ calls'[c].out.val = calls[c].fut.val ]_vars

\* a get called with required_identity = "b" has returned what the handler of
\* b returned, while a, which has a handler for the operation too, ran none
C20_Witness ==
    \E c \in CallIds :
        /\ calls[c].rid = "b"
        /\ Returned(c, "{pong:true}")
        /\ calls[c].op \in DOMAIN handlers["a"]
        /\ \A k \in DOMAIN tasks["a"] : tasks["a"][k].nonce # calls[c].nonce
        /\ \E k \in DOMAIN tasks["b"] :
             /\ tasks["b"][k].nonce = calls[c].nonce
             /\ tasks["b"][k].resp = "{pong:true}"
             /\ tasks["b"][k].sent
        /\ inbox["a"] = <<>>

====
